---- MODULE Spec2Model ----
(***************************************************************************)
(* A model of the Acos client of src/Acos.py (AxAPI v3.0 wrapper).         *)
(*                                                                         *)
(* Python values are records tagged by their type (field t).  Text is a    *)
(* sequence of string fragments; text that the code indexes or slices is   *)
(* split into single characters.  An operation's outcome is one of         *)
(*   return v   - the method returns v to its caller,                      *)
(*   exit n     - exit(n) was called: SystemExit(n) leaves the method,     *)
(*   raise e    - exception e leaves the method.                           *)
(***************************************************************************)
EXTENDS Integers, Sequences, FiniteSets, TLC

VARIABLES
    self,     \* the Acos object: device, username, password, base_url, headers
    proc,     \* the calling process: running, exited (exit status) or raised (uncaught exception)
    last,     \* the latest operation: its name and argument, the requests it sent, what the
              \* transport answered, and its outcome
    nops,     \* operations performed so far
    session,  \* history: Unauthenticated until auth succeeds, Authenticated after a successful
              \* auth, LoggedOff after auth_logoff or a logoff request
    authed,   \* history: some auth has succeeded
    live      \* history: the Authorization values granted by a successful auth and not yet
              \* named by a logoff request the device received

vars == <<self, proc, last, nops, session, authed, live>>

(* The number of operations the calling script performs on the client. *)
MaxOps == 2

---------------------------------------------------------------------------
(* Python values *)

PyNone == [t |-> "None"]

PyStr(s) == [t |-> "str", s |-> s]

PyInt(n) == [t |-> "int", n |-> n]

PyList(l) == [t |-> "list", l |-> l]

(* A dict is its items in insertion order, each [k |-> key, v |-> value]; keys are distinct. *)
PyDict(items) == [t |-> "dict", d |-> items]

(* list(set(...)): a list whose order Python does not fix, kept as its set of elements. *)
PyListOfSet(e) == [t |-> "listofset", e |-> e]

Item(k, v) == [k |-> k, v |-> v]

(* The result of evaluating an expression: exc = "none" and the value, or the exception raised. *)
Val(v) == [exc |-> "none", v |-> v]

Exc(e) == [exc |-> e, v |-> PyNone]

HasKey(v, key) == \E i \in DOMAIN v.d : v.d[i].k = key

(* v[key] for a str key: dict lookup; str and list take integer indices only; *)
(* None and int are not subscriptable.                                        *)
Subscript(v, key) ==
    IF v.t = "dict"
    THEN IF HasKey(v, key)
         THEN Val(v.d[CHOOSE i \in DOMAIN v.d : v.d[i].k = key].v)
         ELSE Exc("KeyError")
    ELSE Exc("TypeError")

(* for x in v: the elements of a list, the characters of a str, the keys of a dict; *)
(* None and int are not iterable.                                                   *)
Iterate(v) ==
    IF v.t = "list" THEN Val(v.l)
    ELSE IF v.t = "str" THEN Val([i \in 1..Len(v.s) |-> PyStr(<<v.s[i]>>)])
    ELSE IF v.t = "dict" THEN Val([i \in 1..Len(v.d) |-> PyStr(<<v.d[i].k>>)])
    ELSE Exc("TypeError")

---------------------------------------------------------------------------
(* Outcomes of a method *)

Return(v) == [kind |-> "return", v |-> v, code |-> 0, exc |-> "none"]

Exit(n) == [kind |-> "exit", v |-> PyNone, code |-> n, exc |-> "SystemExit"]

Raise(e) == [kind |-> "raise", v |-> PyNone, code |-> 0, exc |-> e]

---------------------------------------------------------------------------
(* The wire: bodies, responses, transport outcomes *)

(* A body is JSON text (kept as the document it encodes), other text, or bytes *)
(* that are not valid UTF-8.                                                   *)
JsonBody(doc) == [kind |-> "json", text |-> <<>>, doc |-> doc]

TextBody(text) == [kind |-> "text", text |-> text, doc |-> PyNone]

BinaryBody == [kind |-> "binary", text |-> <<>>, doc |-> PyNone]

NoBody == [kind |-> "none", text |-> <<>>, doc |-> PyNone]

Response(status, body) == [k |-> "response", status |-> status, body |-> body]

ConnectionError == [k |-> "ConnectionError", status |-> 0, body |-> NoBody]

OtherException == [k |-> "Exception", status |-> 0, body |-> NoBody]

---------------------------------------------------------------------------
(* Acos.__init__ *)

Device == <<"device">>

Username == <<"admin">>

Password == <<"a10">>

ContentType == <<"application/json">>

NewClient ==
    [device   |-> Device,
     username |-> Username,
     password |-> Password,
     base_url |-> <<"https://">> \o Device \o <<"/axapi/v3/">>,
     headers  |-> [n \in {"content-type"} |-> ContentType]]

(* headers[name] = value *)
SetHeader(headers, name, value) ==
    [n \in DOMAIN headers \cup {name} |-> IF n = name THEN value ELSE headers[n]]

---------------------------------------------------------------------------
(* Acos.axapi_call *)

GET == "GET"

POST == "POST"

(* Request with a slip: the request is built without the Authorization header. *)
RequestWithoutAuthorization(s, module, method, payload) ==
    [method  |-> method,
     module  |-> module,
     url     |-> s.base_url \o <<module>>,
     headers |-> [n \in DOMAIN s.headers \ {"Authorization"} |-> s.headers[n]],
     data    |-> IF method = POST THEN JsonBody(payload) ELSE NoBody]

(* requests.get(url, headers=self.headers) / requests.post(url, data=json.dumps(payload), *)
(* headers=self.headers): the request put on the wire.                                    *)
Request(s, module, method, payload) ==
    [method  |-> method,
     module  |-> module,
     url     |-> s.base_url \o <<module>>,
     headers |-> s.headers,
     data    |-> IF method = POST THEN JsonBody(payload) ELSE NoBody]

(* TransportFailure with a slip: only requests.ConnectionError is handled. *)
TransportFailureUnhandled(t) == IF t.k = "ConnectionError" THEN Exit(1) ELSE Raise("Exception")

(* Both except clauses of the GET and of the POST branch log and call exit(1). *)
TransportFailure(t) == Exit(1)

EmptyResult == PyStr(<<>>)

NoContent == PyDict(<<Item("HTTP RESPONSE CODE", PyStr(<<"HTTP 204">>))>>)

CommandOutput(text) == PyDict(<<Item("command output", PyStr(text))>>)

(* DecodeResponse with a slip: an empty body gives the empty result whatever the status. *)
DecodeResponseEmptyAnyStatus(status, body) ==
    IF body.kind = "json" THEN Return(body.doc)
    ELSE IF body.kind = "binary" /\ status # 204 THEN Raise("UnicodeDecodeError")
    ELSE IF body.kind = "text" /\ body.text = <<>> THEN Return(EmptyResult)
    ELSE IF status = 204 THEN Return(NoContent)
    ELSE Return(CommandOutput(body.text))

(* Lines 113-124: json.loads(r.content.decode()), and the ValueError fallbacks.     *)
(* Bytes that are not UTF-8 make decode() raise UnicodeDecodeError, a ValueError:   *)
(* the handler is entered, and decode() raises again wherever the handler calls it. *)
DecodeResponse(status, body) ==
    IF body.kind = "json" THEN Return(body.doc)
    ELSE IF status = 200 /\ body.kind = "binary" THEN Raise("UnicodeDecodeError")
    ELSE IF status = 200 /\ body.text = <<>> THEN Return(EmptyResult)
    ELSE IF status = 204 THEN Return(NoContent)
    ELSE IF body.kind = "binary" THEN Raise("UnicodeDecodeError")
    ELSE Return(CommandOutput(body.text))

(* One axapi_call whose transport answers t: the requests sent, the transport outcomes *)
(* consumed and the outcome.  A method other than GET and POST sends nothing and       *)
(* reaches r.content with r unbound.                                                   *)
axapi_call(s, module, method, payload, t) ==
    IF method \notin {GET, POST}
    THEN [reqs |-> <<>>, resps |-> <<>>, outcome |-> Raise("UnboundLocalError")]
    ELSE [reqs    |-> <<Request(s, module, method, payload)>>,
          resps   |-> <<t>>,
          outcome |-> IF t.k = "response"
                      THEN DecodeResponse(t.status, t.body)
                      ELSE TransportFailure(t)]

(* Acos.clideploy *)
clideploy(s, commands, t) ==
    axapi_call(s, "clideploy", POST, PyDict(<<Item("CommandList", PyList(commands))>>), t)

---------------------------------------------------------------------------
(* Acos.auth *)

A10Prefix == <<"A", "1", "0", " ">>

Credentials(s) ==
    PyDict(<<Item("credentials",
                  PyDict(<<Item("username", PyStr(s.username)),
                           Item("password", PyStr(s.password))>>))>>)

(* Lines 55-56: authorization['authresponse']['signature'] *)
AuthToken(authorization) ==
    LET a == Subscript(authorization, "authresponse")
    IN  IF a.exc = "none" THEN Subscript(a.v, "signature") ELSE a

(* AuthOutcome with a slip: the failure path ends the process with exit(0). *)
AuthOutcomeExitsZero(authorization) ==
    LET tok == AuthToken(authorization)
    IN  IF tok.exc # "none" THEN Exit(0)
        ELSE IF tok.v.t # "str" THEN Raise("TypeError")
        ELSE Return(tok.v)

(* Lines 55-68 once axapi_call has returned authorization: the bare except logs and  *)
(* calls exit(1); otherwise 'A10 ' + auth_token (a TypeError unless it is a str) and *)
(* return auth_token.                                                                *)
AuthOutcome(authorization) ==
    LET tok == AuthToken(authorization)
    IN  IF tok.exc # "none" THEN Exit(1)
        ELSE IF tok.v.t # "str" THEN Raise("TypeError")
        ELSE Return(tok.v)

(* AuthHeaders with a slip: the token is stored without the 'A10 ' prefix. *)
AuthHeadersWithoutPrefix(headers, authorization) ==
    LET tok == AuthToken(authorization)
    IN  IF tok.exc = "none" /\ tok.v.t = "str"
        THEN SetHeader(headers, "Authorization", tok.v.s)
        ELSE headers

(* Line 66: self.headers['Authorization'] = 'A10 ' + auth_token, reached only when *)
(* the token was found and is a str.                                               *)
AuthHeaders(headers, authorization) ==
    IF AuthOutcome(authorization).kind = "return"
    THEN SetHeader(headers, "Authorization", A10Prefix \o AuthToken(authorization).v.s)
    ELSE headers

(* auth: one POST to 'auth'; an exit or exception of axapi_call leaves auth as it is. *)
auth(s, t) ==
    LET c == axapi_call(s, "auth", POST, Credentials(s), t)
    IN  IF c.outcome.kind # "return"
        THEN [reqs |-> c.reqs, resps |-> c.resps, outcome |-> c.outcome, headers |-> s.headers]
        ELSE [reqs |-> c.reqs, resps |-> c.resps,
              outcome |-> AuthOutcome(c.outcome.v),
              headers |-> AuthHeaders(s.headers, c.outcome.v)]

---------------------------------------------------------------------------
(* Acos.auth_logoff *)

(* LogoffHeaders with a change: the Authorization entry is removed instead of set. *)
LogoffHeadersCleared(headers, token) ==
    [n \in DOMAIN headers \ {"Authorization"} |-> headers[n]]

(* Line 73: self.headers['Authorization'] = 'A10 ' + token *)
LogoffHeaders(headers, token) == SetHeader(headers, "Authorization", A10Prefix \o token)

(* LogoffOutcome with a slip: 'except Exception:' lets SystemExit through. *)
LogoffOutcomeExceptException(o) == IF o.kind = "exit" THEN o ELSE Return(PyNone)

(* Lines 74-79: the bare except catches whatever leaves axapi_call, SystemExit *)
(* included; either way the method falls off its end and returns None.        *)
LogoffOutcome(o) == Return(PyNone)

auth_logoff(s, token, t) ==
    LET s1 == [s EXCEPT !.headers = LogoffHeaders(s.headers, token)]
        c  == axapi_call(s1, "logoff", POST, EmptyResult, t)
    IN  [reqs |-> c.reqs, resps |-> c.resps,
         outcome |-> LogoffOutcome(c.outcome),
         headers |-> s1.headers]

---------------------------------------------------------------------------
(* Acos.get_partition_list *)

Shared == PyStr(<<"shared">>)

(* Lines 164-168, the loop body from entry i on: partition["partition-name"] is *)
(* appended; a TypeError ends the loop with what was appended so far, any other *)
(* exception leaves the method.                                                 *)
RECURSIVE AppendPartitions(_, _, _)
AppendPartitions(partitions, entries, i) ==
    IF i > Len(entries) THEN Return(PyList(partitions))
    ELSE LET n == Subscript(entries[i], "partition-name")
         IN  IF n.exc = "none" THEN AppendPartitions(Append(partitions, n.v), entries, i + 1)
             ELSE IF n.exc = "TypeError" THEN Return(PyList(partitions))
             ELSE Raise(n.exc)

(* PartitionList with a slip: the loop starts at the second entry. *)
PartitionListSkipsFirst(partition_list) ==
    LET pl == Subscript(partition_list, "partition-list")
    IN  IF pl.exc = "TypeError" THEN Return(PyList(<<Shared>>))
        ELSE IF pl.exc # "none" THEN Raise(pl.exc)
        ELSE LET it == Iterate(pl.v)
             IN  IF it.exc # "none" THEN Return(PyList(<<Shared>>))
                 ELSE AppendPartitions(<<Shared>>, it.v, 2)

(* Lines 161-169 once axapi_call has returned partition_list. *)
PartitionList(partition_list) ==
    LET pl == Subscript(partition_list, "partition-list")
    IN  IF pl.exc = "TypeError" THEN Return(PyList(<<Shared>>))
        ELSE IF pl.exc # "none" THEN Raise(pl.exc)
        ELSE LET it == Iterate(pl.v)
             IN  IF it.exc # "none" THEN Return(PyList(<<Shared>>))
                 ELSE AppendPartitions(<<Shared>>, it.v, 1)

(* get_partition_list with a slip: it leaves the client with the headers of a new client. *)
get_partition_list_resetting_headers(s, t) ==
    LET c == axapi_call(s, "partition", GET, EmptyResult, t)
    IN  [reqs |-> c.reqs, resps |-> c.resps,
         outcome |-> IF c.outcome.kind = "return" THEN PartitionList(c.outcome.v) ELSE c.outcome,
         headers |-> NewClient.headers]

get_partition_list(s, t) ==
    LET c == axapi_call(s, "partition", GET, EmptyResult, t)
    IN  [reqs |-> c.reqs, resps |-> c.resps,
         outcome |-> IF c.outcome.kind = "return" THEN PartitionList(c.outcome.v) ELSE c.outcome,
         headers |-> s.headers]

---------------------------------------------------------------------------
(* Acos.get_partition_config, Acos.change_partition *)

(* Two GETs: the first result is dropped, the second is returned. *)
get_partition_config(s, partition, t1, t2) ==
    LET c1 == axapi_call(s, partition, GET, EmptyResult, t1)
        c2 == axapi_call(s, "/running-config", GET, EmptyResult, t2)
    IN  IF c1.outcome.kind # "return"
        THEN [reqs |-> c1.reqs, resps |-> c1.resps, outcome |-> c1.outcome, headers |-> s.headers]
        ELSE [reqs |-> c1.reqs \o c2.reqs, resps |-> c1.resps \o c2.resps,
              outcome |-> c2.outcome, headers |-> s.headers]

(* except requests.HTTPError catches neither SystemExit nor a decoding error; *)
(* the method has no return statement.                                        *)
change_partition(s, partition, t) ==
    LET c == axapi_call(s, "active-partition/" \o partition, POST,
                        PyDict(<<Item("active-partition",
                                     PyDict(<<Item("curr_part_name", PyStr(<<partition>>))>>))>>), t)
    IN  [reqs |-> c.reqs, resps |-> c.resps,
         outcome |-> IF c.outcome.kind = "return" THEN Return(PyNone) ELSE c.outcome,
         headers |-> s.headers]

---------------------------------------------------------------------------
(* Acos.get_hm_down_reasons *)

Digits == {"0", "1", "2", "3", "4", "5", "6", "7", "8", "9"}

DOWN == <<"D", "O", "W", "N">>

Min(a, b) == IF a < b THEN a ELSE b

(* sub in text *)
Contains(text, sub) ==
    \E i \in 1..(Len(text) - Len(sub) + 1) : SubSeq(text, i, i + Len(sub) - 1) = sub

(* text.find(ch): the 0-based index of the first ch, or -1 *)
Find(text, ch) ==
    IF \E i \in 1..Len(text) : text[i] = ch
    THEN (CHOOSE i \in 1..Len(text) : text[i] = ch /\ \A j \in 1..(i - 1) : text[j] # ch) - 1
    ELSE -1

(* text[a:b] for 0 <= a <= b *)
Slice(text, a, b) == SubSeq(text, a + 1, Min(b, Len(text)))

(* Lines 615-616: line[pntr + 1:pntr + 3] with pntr = line.find("/") *)
ReasonOf(line) == Slice(line, Find(line, "/") + 1, Find(line, "/") + 3)

(* The test of line 618 with a stricter pattern: one digit and then a character that is not one. *)
MatchesOneDigit(text) == Len(text) = 2 /\ text[1] \in Digits /\ text[2] \notin Digits

(* Line 618: re.match('[0-9]', line) is not None *)
MatchesDigit(text) == Len(text) >= 1 /\ text[1] \in Digits

(* Lines 613-616 from item i on.  'DOWN' in line is a substring test on a str, a  *)
(* membership test on a list or dict, and a TypeError on None or an int; only a   *)
(* str has find.                                                                  *)
RECURSIVE ScanLines(_, _, _)
ScanLines(items, i, acc) ==
    IF i > Len(items) THEN Val(PyList(acc))
    ELSE LET line == items[i]
         IN  IF line.t = "str"
             THEN ScanLines(items, i + 1,
                            IF Contains(line.s, DOWN)
                            THEN Append(acc, PyStr(ReasonOf(line.s))) ELSE acc)
             ELSE IF line.t = "list"
             THEN IF \E j \in DOMAIN line.l : line.l[j] = PyStr(DOWN)
                  THEN Exc("AttributeError") ELSE ScanLines(items, i + 1, acc)
             ELSE IF line.t = "dict"
             THEN IF HasKey(line, "DOWN")
                  THEN Exc("AttributeError") ELSE ScanLines(items, i + 1, acc)
             ELSE Exc("TypeError")

(* Lines 611-620 once clideploy has returned r. *)
DownReasons(r) ==
    LET health_stat == Subscript(r, "command output")
    IN  IF health_stat.exc # "none" THEN Raise(health_stat.exc)
        ELSE LET it == Iterate(health_stat.v)
             IN  IF it.exc # "none" THEN Raise(it.exc)
                 ELSE LET found == ScanLines(it.v, 1, <<>>)
                      IN  IF found.exc # "none" THEN Raise(found.exc)
                          ELSE Return(PyListOfSet({found.v.l[j] : j \in
                                   {k \in DOMAIN found.v.l : MatchesDigit(found.v.l[k].s)}}))

ShowHealthStat == PyStr(<<"show health stat">>)

get_hm_down_reasons(s, t) ==
    LET c == clideploy(s, <<ShowHealthStat>>, t)
    IN  [reqs |-> c.reqs, resps |-> c.resps,
         outcome |-> IF c.outcome.kind = "return" THEN DownReasons(c.outcome.v) ELSE c.outcome,
         headers |-> s.headers]

---------------------------------------------------------------------------
(* The named accessors that forward one call *)

(* One entry per accessor whose body makes one call and returns its result: the method's *)
(* name; doc, the command its docstring names (up to the placeholder N or <NAME> when   *)
(* it ends in one); the method it calls; and the module or CLI command it passes, which *)
(* is pre, or pre + argument + post when the accessor takes an argument.                *)
Catalog ==
    { [name |-> "get_startup_configs", doc |-> "show startup-config all-partitions",
       via |-> "clideploy", pre |-> "show startup-config all-partitions", takesArg |-> FALSE, post |-> ""],
      [name |-> "get_running_configs", doc |-> "show running with-default partition-config all",
       via |-> "clideploy", pre |-> "show running with-default partition-config all", takesArg |-> FALSE, post |-> ""],
      [name |-> "get_json_config", doc |-> "show json-config",
       via |-> "clideploy", pre |-> "show json-config", takesArg |-> FALSE, post |-> ""],
      [name |-> "get_vrrpa", doc |-> "show vrrp-a",
       via |-> "axapi_call", pre |-> "vrrp-a", takesArg |-> FALSE, post |-> ""],
      [name |-> "get_vrrpa_stats", doc |-> "gets vrrp-a stats",
       via |-> "axapi_call", pre |-> "vrrp-a/state/stats", takesArg |-> FALSE, post |-> ""],
      [name |-> "get_vcs_images", doc |-> "show vcs images",
       via |-> "axapi_call", pre |-> "vcs/images/oper", takesArg |-> FALSE, post |-> ""],
      [name |-> "get_vcs_summary", doc |-> "show vcs summary",
       via |-> "axapi_call", pre |-> "vcs/vcs-summary/oper", takesArg |-> FALSE, post |-> ""],
      [name |-> "get_slb_servers", doc |-> "show slb server",
       via |-> "axapi_call", pre |-> "slb/server", takesArg |-> FALSE, post |-> ""],
      [name |-> "get_slb_service_groups", doc |-> "show slb service-group",
       via |-> "axapi_call", pre |-> "slb/service-group", takesArg |-> FALSE, post |-> ""],
      [name |-> "get_slb_virtual_servers", doc |-> "show slb virtual-server",
       via |-> "axapi_call", pre |-> "slb/virtual-server", takesArg |-> FALSE, post |-> ""],
      [name |-> "get_slb_server_stats", doc |-> "show slb server ",
       via |-> "axapi_call", pre |-> "slb/server/", takesArg |-> TRUE, post |-> "/stats"],
      [name |-> "get_slb_service_group_stats", doc |-> "show slb service-group ",
       via |-> "axapi_call", pre |-> "slb/service-group/", takesArg |-> TRUE, post |-> "/stats"],
      [name |-> "get_slb_virtual_server_stats", doc |-> "show slb virtual-server ",
       via |-> "axapi_call", pre |-> "slb/virtual-server/", takesArg |-> TRUE, post |-> "/stats"],
      [name |-> "get_slb_server_oper", doc |-> "show slb server",
       via |-> "axapi_call", pre |-> "slb/server/oper", takesArg |-> FALSE, post |-> ""],
      [name |-> "get_slb_service_group_oper", doc |-> "show slb service-group",
       via |-> "axapi_call", pre |-> "slb/service-group/oper", takesArg |-> FALSE, post |-> ""],
      [name |-> "get_slb_virtual_server_oper", doc |-> "show slb virtual-server",
       via |-> "axapi_call", pre |-> "slb/virtual-server/oper", takesArg |-> FALSE, post |-> ""],
      [name |-> "get_memory", doc |-> "show memory",
       via |-> "axapi_call", pre |-> "system/memory/oper", takesArg |-> FALSE, post |-> ""],
      [name |-> "get_system_oper", doc |-> "show oper",
       via |-> "axapi_call", pre |-> "system/oper/", takesArg |-> FALSE, post |-> ""],
      [name |-> "get_hardware", doc |-> "show hardware",
       via |-> "axapi_call", pre |-> "system/hardware/", takesArg |-> FALSE, post |-> ""],
      [name |-> "get_disk", doc |-> "show disk",
       via |-> "axapi_call", pre |-> "system/hardware/oper", takesArg |-> FALSE, post |-> ""],
      [name |-> "get_slb_hw_compression", doc |-> "show slb hw-compression",
       via |-> "axapi_call", pre |-> "slb/hw-compress/stats", takesArg |-> FALSE, post |-> ""],
      [name |-> "get_environment", doc |-> "show environment",
       via |-> "axapi_call", pre |-> "system/environment", takesArg |-> FALSE, post |-> ""],
      [name |-> "get_interfaces_transceiver", doc |-> "show interfaces transceiver",
       via |-> "clideploy", pre |-> "show interfaces transceiver ethernet 9 details", takesArg |-> FALSE, post |-> ""],
      [name |-> "get_interface_ethernet", doc |-> "show interfaces",
       via |-> "axapi_call", pre |-> "interface/ethernet/stats", takesArg |-> FALSE, post |-> ""],
      [name |-> "get_interface_ve", doc |-> "show interfaces ve",
       via |-> "axapi_call", pre |-> "interface/ve/stats", takesArg |-> FALSE, post |-> ""],
      [name |-> "get_trunk", doc |-> "show trunk",
       via |-> "axapi_call", pre |-> "interface/trunk/stats", takesArg |-> FALSE, post |-> ""],
      [name |-> "get_lacp", doc |-> "show lacp trunk detail",
       via |-> "clideploy", pre |-> "show lacp trunk detail", takesArg |-> FALSE, post |-> ""],
      [name |-> "get_lacp_counters", doc |-> "show lacp counter",
       via |-> "axapi_call", pre |-> "network/lacp/stats", takesArg |-> FALSE, post |-> ""],
      [name |-> "get_vlans", doc |-> "show vlans",
       via |-> "axapi_call", pre |-> "network/vlan", takesArg |-> FALSE, post |-> ""],
      [name |-> "get_vlan_stats", doc |-> "show vlan counters",
       via |-> "axapi_call", pre |-> "network/vlan/stats", takesArg |-> FALSE, post |-> ""],
      [name |-> "get_system_resources_usage", doc |-> "show system resource-usage",
       via |-> "axapi_call", pre |-> "system/resource-usage/oper", takesArg |-> FALSE, post |-> ""],
      [name |-> "get_slb_resource_usage", doc |-> "show slb resource-usage",
       via |-> "axapi_call", pre |-> "slb/resource-usage/oper", takesArg |-> FALSE, post |-> ""],
      [name |-> "get_resource_acct", doc |-> "show resource-accounting",
       via |-> "axapi_call", pre |-> "system/resource-accounting/oper", takesArg |-> FALSE, post |-> ""],
      [name |-> "get_icmp_stats", doc |-> "show system icmp",
       via |-> "axapi_call", pre |-> "system/icmp/stats", takesArg |-> FALSE, post |-> ""],
      [name |-> "get_data_cpu", doc |-> "show cpu",
       via |-> "axapi_call", pre |-> "system/data-cpu/stats", takesArg |-> FALSE, post |-> ""],
      [name |-> "get_control_cpu", doc |-> "show cpu",
       via |-> "axapi_call", pre |-> "system/control-cpu/stats", takesArg |-> FALSE, post |-> ""],
      [name |-> "get_cpu_load_sharing", doc |-> "show cpu",
       via |-> "axapi_call", pre |-> "system/cpu-load-sharing/", takesArg |-> FALSE, post |-> ""],
      [name |-> "get_cpu_history", doc |-> "show cpu history",
       via |-> "clideploy", pre |-> "show cpu history", takesArg |-> FALSE, post |-> ""],
      [name |-> "get_session", doc |-> "show session",
       via |-> "axapi_call", pre |-> "system/session/stats", takesArg |-> FALSE, post |-> ""],
      [name |-> "get_ip_route", doc |-> "show ip route",
       via |-> "axapi_call", pre |-> "ip/fib/oper", takesArg |-> FALSE, post |-> ""],
      [name |-> "get_ip_stats", doc |-> "show ip stats",
       via |-> "axapi_call", pre |-> "ip/stats", takesArg |-> FALSE, post |-> ""],
      [name |-> "get_slb_switch", doc |-> "show slb switch",
       via |-> "axapi_call", pre |-> "slb/switch/stats", takesArg |-> FALSE, post |-> ""],
      [name |-> "get_slb_tcp_stack", doc |-> "show slb tcp stack",
       via |-> "axapi_call", pre |-> "system/tcp/stats", takesArg |-> FALSE, post |-> ""],
      [name |-> "get_system_bandwidth_stats", doc |-> "Equivalent show cmd???",
       via |-> "axapi_call", pre |-> "/system/bandwidth/stats", takesArg |-> FALSE, post |-> ""],
      [name |-> "get_slb_ssl_error", doc |-> "show slb ssl error",
       via |-> "clideploy", pre |-> "show slb ssl error", takesArg |-> FALSE, post |-> ""],
      [name |-> "get_slb_ssl_stats", doc |-> "show slb ssl stats",
       via |-> "clideploy", pre |-> "show slb tcp stack", takesArg |-> FALSE, post |-> ""],
      [name |-> "get_slb_l4", doc |-> "show slb l4",
       via |-> "axapi_call", pre |-> "slb/l4/stats", takesArg |-> FALSE, post |-> ""],
      [name |-> "get_resource_acct_system", doc |-> "show resource-accounting resource-type system-resources",
       via |-> "clideploy", pre |-> "show resource-accounting resource-type system-resources", takesArg |-> FALSE, post |-> ""],
      [name |-> "get_health_monitor_status", doc |-> "show health stat",
       via |-> "clideploy", pre |-> "show health stat", takesArg |-> FALSE, post |-> ""],
      [name |-> "get_health_monitor", doc |-> "show health stat",
       via |-> "clideploy", pre |-> "show health monitor", takesArg |-> FALSE, post |-> ""],
      [name |-> "get_health_monitor_reason", doc |-> "show health down-reason ",
       via |-> "clideploy", pre |-> "show health down-reason ", takesArg |-> TRUE, post |-> ""],
      [name |-> "get_health", doc |-> "show health monitor",
       via |-> "axapi_call", pre |-> "health/monitor", takesArg |-> FALSE, post |-> ""],
      [name |-> "get_health_stat", doc |-> "show health stat",
       via |-> "clideploy", pre |-> "show health stat", takesArg |-> FALSE, post |-> ""],
      [name |-> "get_performance", doc |-> "show slb performance",
       via |-> "axapi_call", pre |-> "slb/perf/stats", takesArg |-> FALSE, post |-> ""],
      [name |-> "get_logging_data", doc |-> "show log",
       via |-> "axapi_call", pre |-> "syslog/oper", takesArg |-> FALSE, post |-> ""],
      [name |-> "get_logging", doc |-> "show log",
       via |-> "axapi_call", pre |-> "/logging", takesArg |-> FALSE, post |-> ""],
      [name |-> "get_management_services", doc |-> "show run enable-management",
       via |-> "axapi_call", pre |-> "enable-management", takesArg |-> FALSE, post |-> ""],
      [name |-> "get_slb_conn_rate_limit_data", doc |-> "show slb conn-rate-limit src-ip statistics",
       via |-> "axapi_call", pre |-> "slb/common/conn-rate-limit", takesArg |-> FALSE, post |-> ""],
      [name |-> "get_ip_anomaly_drop", doc |-> "show ip anomaly-drop",
       via |-> "axapi_call", pre |-> "ip/anomaly-drop/stats", takesArg |-> FALSE, post |-> ""],
      [name |-> "get_version", doc |-> "show version",
       via |-> "axapi_call", pre |-> "version/oper", takesArg |-> FALSE, post |-> ""],
      [name |-> "get_bootimage", doc |-> "show bootimage",
       via |-> "axapi_call", pre |-> "bootimage/oper", takesArg |-> FALSE, post |-> ""] }

(* The module or command an accessor passes on *)
Target(entry, a) == IF entry.takesArg THEN entry.pre \o a \o entry.post ELSE entry.pre

(* accessor with a slip: the body has no return statement. *)
accessorWithoutReturn(s, entry, a, t) ==
    LET c == IF entry.via = "clideploy"
             THEN clideploy(s, <<PyStr(<<Target(entry, a)>>)>>, t)
             ELSE axapi_call(s, Target(entry, a), GET, EmptyResult, t)
    IN  [reqs |-> c.reqs, resps |-> c.resps,
         outcome |-> IF c.outcome.kind = "return" THEN Return(PyNone) ELSE c.outcome,
         headers |-> s.headers]

accessor(s, entry, a, t) ==
    LET c == IF entry.via = "clideploy"
             THEN clideploy(s, <<PyStr(<<Target(entry, a)>>)>>, t)
             ELSE axapi_call(s, Target(entry, a), GET, EmptyResult, t)
    IN  [reqs |-> c.reqs, resps |-> c.resps, outcome |-> c.outcome, headers |-> s.headers]

---------------------------------------------------------------------------
(* What the device may answer *)

Tokens == { <<"t", "1">>, <<"t", "2">> }

P1 == PyStr(<<"P1">>)

P2 == PyStr(<<"P2">>)

LineDown == <<"1", "/", "3", " ", " ", "D", "O", "W", "N">>

LineUp == <<"2", "/", "7", " ", " ", "U", "P">>

HealthText == LineDown \o <<"\n">> \o LineUp

AuthOk(tok) == PyDict(<<Item("authresponse", PyDict(<<Item("signature", PyStr(tok))>>))>>)

AuthNullSignature == PyDict(<<Item("authresponse", PyDict(<<Item("signature", PyNone)>>))>>)

AuthError ==
    PyDict(<<Item("response",
                  PyDict(<<Item("err", PyDict(<<Item("msg", PyStr(<<"Unauthorized">>))>>))>>))>>)

Partitions(names) ==
    PyDict(<<Item("partition-list",
                  PyList([i \in 1..Len(names) |-> PyDict(<<Item("partition-name", names[i])>>)]))>>)

PartitionsNull == PyDict(<<Item("partition-list", PyNone)>>)

PartitionsBroken ==
    PyDict(<<Item("partition-list",
                  PyList(<<PyDict(<<Item("partition-name", P1)>>), PyNone,
                           PyDict(<<Item("partition-name", P2)>>)>>))>>)

HealthLines == PyDict(<<Item("command output", PyList(<<PyStr(LineDown), PyStr(LineUp)>>))>>)

Documents ==
    { AuthOk(tok) : tok \in Tokens }
    \cup { AuthNullSignature, AuthError, PyDict(<<>>), PyNone,
           Partitions(<<>>), Partitions(<<P1, P2>>), Partitions(<<P2, P1>>),
           PartitionsNull, PartitionsBroken, HealthLines }

Statuses == {200, 204, 404}

(* Every status with every body that is not JSON; JSON documents with 200, and one of *)
(* them with every status.                                                            *)
Responses ==
    { Response(st, b) : st \in Statuses, b \in {TextBody(<<>>), TextBody(HealthText), BinaryBody} }
    \cup { Response(200, JsonBody(d)) : d \in Documents }
    \cup { Response(st, JsonBody(d)) : st \in Statuses, d \in {AuthError} }

TransportOutcomes == Responses \cup {ConnectionError, OtherException}

Modules == {"version/oper", "logoff"}

Methods == {GET, POST, "PUT"}

Commands == {"show health stat"}

PartitionArgs == {"P1"}

(* The argument of the accessors that take one: a server, service group or reason name *)
AccessorArgs == {"1"}

(* The accessors the calling script of Spec uses: one GET and two clideploy accessors *)
Sampled == {e \in Catalog : e.name \in {"get_version", "get_health_stat", "get_slb_ssl_stats"}}

---------------------------------------------------------------------------
(* The calling script: one client, one operation after another while the process runs *)

Init ==
    /\ self = NewClient
    /\ proc = [state |-> "running", code |-> 0]
    /\ last = [op |-> "__init__", arg |-> <<>>, reqs |-> <<>>, resps |-> <<>>,
               outcome |-> Return(PyNone)]
    /\ nops = 0
    /\ session = "Unauthenticated"
    /\ authed = FALSE
    /\ live = {}

Running == proc.state = "running" /\ nops < MaxOps

(* SystemExit(n) that nothing catches ends the process with status n; an exception *)
(* that nothing catches ends it with a traceback and status 1.                     *)
After(outcome) ==
    IF outcome.kind = "exit" THEN [state |-> "exited", code |-> outcome.code]
    ELSE IF outcome.kind = "raise" THEN [state |-> "raised", code |-> 1]
    ELSE proc

(* The state after operation op(arg) ran as r says. *)
Done(op, arg, r) ==
    /\ self' = [self EXCEPT !.headers = r.headers]
    /\ last' = [op |-> op, arg |-> arg, reqs |-> r.reqs, resps |-> r.resps,
                outcome |-> r.outcome]
    /\ proc' = After(r.outcome)
    /\ nops' = nops + 1

(* Authorization values the device accepts: granted by auth, dropped by a logoff it received *)
Granted(r) ==
    IF r.outcome.kind = "return" THEN {r.headers["Authorization"]} ELSE {}

Revoked(r) ==
    { r.reqs[i].headers["Authorization"] :
        i \in { j \in DOMAIN r.reqs : r.reqs[j].module = "logoff" /\ r.resps[j].k = "response"
                                      /\ "Authorization" \in DOMAIN r.reqs[j].headers } }

Auth ==
    /\ Running
    /\ \E t \in TransportOutcomes :
         LET r == auth(self, t)
         IN  /\ Done("auth", <<>>, r)
             /\ session' = IF r.outcome.kind = "return" THEN "Authenticated" ELSE session
             /\ authed' = (authed \/ r.outcome.kind = "return")
             /\ live' = live \cup Granted(r)

AuthLogoff ==
    /\ Running
    /\ \E token \in Tokens, t \in TransportOutcomes :
         LET r == auth_logoff(self, token, t)
         IN  /\ Done("auth_logoff", token, r)
             /\ session' = "LoggedOff"
             /\ live' = live \ Revoked(r)
             /\ UNCHANGED authed

AxapiCall ==
    /\ Running
    /\ \E module \in Modules, method \in Methods, t \in TransportOutcomes :
         LET c == axapi_call(self, module, method, EmptyResult, t)
             r == [reqs |-> c.reqs, resps |-> c.resps, outcome |-> c.outcome,
                   headers |-> self.headers]
         IN  /\ Done("axapi_call", <<module, method>>, r)
             /\ session' = IF \E i \in DOMAIN r.reqs : r.reqs[i].module = "logoff"
                           THEN "LoggedOff" ELSE session
             /\ live' = live \ Revoked(r)
             /\ UNCHANGED authed

Clideploy ==
    /\ Running
    /\ \E command \in Commands, t \in TransportOutcomes :
         LET c == clideploy(self, <<PyStr(<<command>>)>>, t)
             r == [reqs |-> c.reqs, resps |-> c.resps, outcome |-> c.outcome,
                   headers |-> self.headers]
         IN  /\ Done("clideploy", <<command>>, r)
             /\ UNCHANGED <<session, authed, live>>

GetPartitionList ==
    /\ Running
    /\ \E t \in TransportOutcomes : Done("get_partition_list", <<>>, get_partition_list(self, t))
    /\ UNCHANGED <<session, authed, live>>

GetPartitionConfig ==
    /\ Running
    /\ \E partition \in PartitionArgs, t1 \in TransportOutcomes, t2 \in TransportOutcomes :
         Done("get_partition_config", <<partition>>, get_partition_config(self, partition, t1, t2))
    /\ UNCHANGED <<session, authed, live>>

ChangePartition ==
    /\ Running
    /\ \E partition \in PartitionArgs, t \in TransportOutcomes :
         Done("change_partition", <<partition>>, change_partition(self, partition, t))
    /\ UNCHANGED <<session, authed, live>>

GetHmDownReasons ==
    /\ Running
    /\ \E t \in TransportOutcomes : Done("get_hm_down_reasons", <<>>, get_hm_down_reasons(self, t))
    /\ UNCHANGED <<session, authed, live>>

Accessor ==
    /\ Running
    /\ \E entry \in Sampled, a \in AccessorArgs, t \in TransportOutcomes :
         Done(entry.name, IF entry.takesArg THEN <<a>> ELSE <<>>, accessor(self, entry, a, t))
    /\ UNCHANGED <<session, authed, live>>

Next ==
    \/ Auth
    \/ AuthLogoff
    \/ AxapiCall
    \/ Clideploy
    \/ GetPartitionList
    \/ GetPartitionConfig
    \/ ChangePartition
    \/ GetHmDownReasons
    \/ Accessor

Spec == Init /\ [][Next]_vars

---------------------------------------------------------------------------
(* get_hm_down_reasons applied to a list of lines *)

(* The longest list of lines the device answers with. *)
MaxLines == 2

LineHeads == { <<"1">>, DOWN \o <<" ", "1">> }

LineSeparators == { <<"/">>, <<" ">> }

LineCodes == { <<"3", " ">>, <<"1", "2">>, <<"x", "9">>, <<"5">>, <<"4", "/">> }

LineTails == { <<" ">> \o DOWN, <<>> }

(* Lines of 'show health stat': with and without DOWN, with and without "/", the "/" *)
(* followed by two, one or no further character.                                    *)
HealthStatLines ==
    { head \o sep \o code \o tail :
        head \in LineHeads, sep \in LineSeparators, code \in LineCodes, tail \in LineTails }

HealthStatLists == UNION { [1..n -> HealthStatLines] : n \in 0..MaxLines }

LinesOutput(lines) ==
    PyDict(<<Item("command output", PyList([i \in 1..Len(lines) |-> PyStr(lines[i])]))>>)

CallGetHmDownReasons ==
    /\ nops = 0
    /\ \E lines \in HealthStatLists :
         Done("get_hm_down_reasons", <<>>,
              get_hm_down_reasons(self, Response(200, JsonBody(LinesOutput(lines)))))
    /\ UNCHANGED <<session, authed, live>>

NextLines == CallGetHmDownReasons

SpecLines == Init /\ [][NextLines]_vars

---------------------------------------------------------------------------
(* A script that may call any accessor of the catalog *)

(* The number of operations that script performs. *)
MaxCatalogOps == 1

InCatalogRun == nops < MaxCatalogOps

CallAuth == InCatalogRun /\ Auth

CallAccessor ==
    /\ InCatalogRun
    /\ Running
    /\ \E entry \in Catalog, a \in AccessorArgs, t \in TransportOutcomes :
         Done(entry.name, IF entry.takesArg THEN <<a>> ELSE <<>>, accessor(self, entry, a, t))
    /\ UNCHANGED <<session, authed, live>>

CallGetPartitionConfig == InCatalogRun /\ GetPartitionConfig

CallChangePartition == InCatalogRun /\ ChangePartition

NextCatalog ==
    \/ CallAuth
    \/ CallAccessor
    \/ CallGetPartitionConfig
    \/ CallChangePartition

SpecCatalog == Init /\ [][NextCatalog]_vars

---------------------------------------------------------------------------
(* Properties *)

Carries(req) == "Authorization" \in DOMAIN req.headers

(* The token a request carries after the 'A10 ' prefix *)
TokenOf(req) ==
    SubSeq(req.headers["Authorization"], Len(A10Prefix) + 1, Len(req.headers["Authorization"]))

(* The request carries a non-empty token that a successful auth obtained and that no *)
(* logoff request has named since, given the values alive when it is sent.           *)
CarriesLiveToken(req, alive) ==
    /\ Carries(req)
    /\ TokenOf(req) # <<>>
    /\ req.headers["Authorization"] \in alive

SessionOps == {"auth", "auth_logoff"}

(* C1 as stated: every request the client issues, other than the one auth sends, *)
(* carries a non-empty token obtained by an earlier successful auth and not      *)
(* logged off since; none goes out with an absent or stale token.                *)
C1_EveryRequestCarriesLiveToken ==
    [][\A i \in DOMAIN last'.reqs :
          last'.reqs[i].module # "auth" => CarriesLiveToken(last'.reqs[i], live)]_vars

(* C1 as amended: requests go out with the client's headers as they are, unchecked. *)
(* A request of an operation other than auth and auth_logoff carries the non-empty, *)
(* still live token of the latest successful auth when that auth is the latest      *)
(* session step, and carries no Authorization when neither a successful auth nor a  *)
(* logoff has happened; the request of auth_logoff carries 'A10 ' + its argument.   *)
C1_RequestsCarryCurrentHeaders ==
    [][\A i \in DOMAIN last'.reqs :
          LET req == last'.reqs[i]
          IN  /\ (last'.op \notin SessionOps /\ session = "Authenticated")
                    => CarriesLiveToken(req, live) /\ req.headers = self.headers
              /\ (last'.op \notin SessionOps /\ session = "Unauthenticated")
                    => ~Carries(req) /\ req.headers = self.headers
              /\ last'.op = "auth_logoff"
                    => Carries(req) /\ TokenOf(req) = last'.arg]_vars

C1_Witness ==
    /\ last.op = "axapi_call"
    /\ session = "Authenticated"
    /\ Len(last.reqs) = 1
    /\ Carries(last.reqs[1])
    /\ last.reqs[1].headers["Authorization"] \in live

(* C2: when the auth response holds a token at authresponse.signature, auth returns *)
(* that token and stores 'A10 ' followed by it as the Authorization header; every   *)
(* later operation other than auth and auth_logoff leaves the header as it is and   *)
(* sends it with each of its requests.                                              *)
C2_AuthStoresTokenForLaterCalls ==
    [][/\ \A tok \in Tokens :
            (last'.op = "auth" /\ last'.resps = <<Response(200, JsonBody(AuthOk(tok)))>>)
               => /\ last'.outcome = Return(PyStr(tok))
                  /\ self'.headers["Authorization"] = <<"A", "1", "0", " ">> \o tok
       /\ (last'.op \notin SessionOps /\ session = "Authenticated")
            => /\ self'.headers = self.headers
               /\ \A i \in DOMAIN last'.reqs :
                     /\ Carries(last'.reqs[i])
                     /\ last'.reqs[i].headers["Authorization"] = self.headers["Authorization"]]_vars

C2_Witness ==
    /\ last.op = "clideploy"
    /\ session = "Authenticated"
    /\ Len(last.reqs) = 1
    /\ last.reqs[1].method = POST
    /\ last.reqs[1].headers["Authorization"] = <<"A", "1", "0", " ", "t", "1">>

(* The transport answered with something axapi_call hands back as a result that has *)
(* no token at authresponse.signature: JSON without that field, or text that is not *)
(* JSON (the empty result, the 204 sentinel, wrapped text).                         *)
LacksSignature(t) ==
    /\ t.k = "response"
    /\ t.body.kind \in {"json", "text"}
    /\ t.body.kind = "json" =>
          ~(/\ t.body.doc.t = "dict"
            /\ \E i \in DOMAIN t.body.doc.d :
                  /\ t.body.doc.d[i].k = "authresponse"
                  /\ t.body.doc.d[i].v.t = "dict"
                  /\ \E j \in DOMAIN t.body.doc.d[i].v.d : t.body.doc.d[i].v.d[j].k = "signature")

(* C3: an auth whose response lacks authresponse.signature ends the process with a *)
(* non-zero exit status, changes no header, returns no token and has sent exactly  *)
(* one request.                                                                    *)
C3_AuthFailureExits ==
    [][(last'.op = "auth" /\ Len(last'.resps) = 1 /\ LacksSignature(last'.resps[1]))
          => /\ proc'.state = "exited"
             /\ proc'.code # 0
             /\ last'.outcome.kind = "exit"
             /\ self'.headers = self.headers
             /\ Len(last'.reqs) = 1
             /\ last'.reqs[1].module = "auth"]_vars

C3_Witness ==
    /\ last.op = "auth"
    /\ last.resps = <<Response(200, JsonBody(AuthError))>>
    /\ proc.state = "exited"
    /\ ~Carries([headers |-> self.headers])

(* Operations that hand the result of their one axapi_call back unchanged *)
Forwarding == {"axapi_call", "clideploy"} \cup {e.name : e \in Catalog}

(* The operation made one request and the transport answered status and text, where *)
(* the text is JSON or other text.                                                  *)
Answered(l) ==
    /\ l.op \in Forwarding
    /\ Len(l.resps) = 1
    /\ l.resps[1].k = "response"
    /\ l.resps[1].body.kind \in {"json", "text"}

SuccessStatus(status) == status >= 200 /\ status <= 299

(* C4 as stated: the decoded JSON value; otherwise the empty result for an empty body *)
(* with a success status; otherwise the 204 sentinel; otherwise the wrapped text.     *)
C4_DecodingPolicyAnySuccessStatus ==
    Answered(last) =>
        LET status == last.resps[1].status
            body   == last.resps[1].body
        IN  last.outcome =
              IF body.kind = "json" THEN Return(body.doc)
              ELSE IF SuccessStatus(status) /\ body.text = <<>> THEN Return(PyStr(<<>>))
              ELSE IF status = 204
                   THEN Return(PyDict(<<Item("HTTP RESPONSE CODE", PyStr(<<"HTTP 204">>))>>))
              ELSE Return(PyDict(<<Item("command output", PyStr(body.text))>>))

(* C4 as amended: the decoded JSON value; otherwise the empty result for an empty body *)
(* with status 200; otherwise the 204 sentinel; otherwise the wrapped text.            *)
C4_DecodingPolicy ==
    Answered(last) =>
        LET status == last.resps[1].status
            body   == last.resps[1].body
        IN  last.outcome =
              IF body.kind = "json" THEN Return(body.doc)
              ELSE IF status = 200 /\ body.text = <<>> THEN Return(PyStr(<<>>))
              ELSE IF status = 204
                   THEN Return(PyDict(<<Item("HTTP RESPONSE CODE", PyStr(<<"HTTP 204">>))>>))
              ELSE Return(PyDict(<<Item("command output", PyStr(body.text))>>))

C4_Witness ==
    /\ last.op = "axapi_call"
    /\ last.resps = <<Response(204, TextBody(<<>>))>>
    /\ last.outcome = Return(PyDict(<<Item("HTTP RESPONSE CODE", PyStr(<<"HTTP 204">>))>>))

TransportFailed(t) == t.k \in {"ConnectionError", "Exception"}

(* C5: auth_logoff returns normally whatever happens to its request, a connection *)
(* error or other transport exception included: the process keeps running and the *)
(* script's next operation can start.                                             *)
C5_LogoffNeverFatal ==
    last.op = "auth_logoff"
        => /\ last.outcome = Return(PyNone)
           /\ proc = [state |-> "running", code |-> 0]
           /\ (nops < MaxOps => ENABLED Next)

C5_Witness ==
    /\ last.op = "auth_logoff"
    /\ last.resps = <<ConnectionError>>
    /\ Len(last.reqs) = 1
    /\ proc.state = "running"

(* C6: when the transport fails during a GET or POST of an operation other than   *)
(* auth_logoff, the process ends with exit status 1: the failed request was tried *)
(* once and is the last one sent, no result is returned, and no operation follows.*)
C6_TransportFailureIsFatal ==
    \A i \in DOMAIN last.resps :
        (last.op # "auth_logoff" /\ TransportFailed(last.resps[i]))
            => /\ proc = [state |-> "exited", code |-> 1]
               /\ last.outcome.kind = "exit"
               /\ i = Len(last.resps)
               /\ Len(last.reqs) = Len(last.resps)
               /\ last.reqs[i].method \in {GET, POST}
               /\ ~ENABLED Next

C6_Witness ==
    /\ last.op = "get_partition_config"
    /\ Len(last.reqs) = 2
    /\ last.resps[2] = OtherException
    /\ proc = [state |-> "exited", code |-> 1]

(* The 'show health stat' output consists of the lines "1/3  DOWN" and "2/7  UP": *)
(* as the list of lines under 'command output', or as the text of the answer.     *)
HealthStatOutput(t) ==
    /\ t.k = "response"
    /\ \/ t.body = JsonBody(HealthLines)
       \/ t.body = TextBody(HealthText)

(* C7: for that output get_hm_down_reasons returns exactly the set {"3"}. *)
C7_DownReasonIsTheDigit ==
    (last.op = "get_hm_down_reasons" /\ Len(last.resps) = 1 /\ HealthStatOutput(last.resps[1]))
        => last.outcome = Return(PyListOfSet({PyStr(<<"3">>)}))

(* The result shapes of a device with no partitions: the empty result, the 204 sentinel, *)
(* wrapped text, a mapping without 'partition-list', a null 'partition-list'.            *)
NoPartitionsAnswer(t) ==
    /\ t.k = "response"
    /\ \/ t.body.kind = "text"
       \/ t.body = JsonBody(PyDict(<<>>))
       \/ t.body = JsonBody(PartitionsNull)

(* C8: for each of those shapes get_partition_list returns exactly ['shared'] and *)
(* raises nothing.                                                                *)
C8_NoPartitionsGivesShared ==
    (last.op = "get_partition_list" /\ Len(last.resps) = 1 /\ NoPartitionsAnswer(last.resps[1]))
        => last.outcome = Return(PyList(<<PyStr(<<"shared">>)>>))

PartitionNameLists == { <<>>, <<P1, P2>>, <<P2, P1>> }

(* C9: when 'partition-list' is a sequence of entries each holding a 'partition-name', *)
(* get_partition_list returns 'shared' followed by every name in response order.       *)
C9_SharedThenNamesInOrder ==
    \A names \in PartitionNameLists :
        (last.op = "get_partition_list"
         /\ last.resps = <<Response(200, JsonBody(Partitions(names)))>>)
            => last.outcome = Return(PyList(<<PyStr(<<"shared">>)>> \o names))

C9_Witness ==
    /\ last.op = "get_partition_list"
    /\ last.resps = <<Response(200, JsonBody(Partitions(<<P1, P2>>)))>>
    /\ last.outcome = Return(PyList(<<PyStr(<<"shared">>), PyStr(<<"P1">>), PyStr(<<"P2">>)>>))

(* C10 as stated: after auth_logoff returns the headers hold no Authorization value, *)
(* and a client that never ran a successful auth never holds one.                    *)
C10_LogoffClearsToken ==
    /\ last.op = "auth_logoff" => "Authorization" \notin DOMAIN self.headers
    /\ ~authed => "Authorization" \notin DOMAIN self.headers

(* C10 as amended: after auth_logoff returns the headers still hold a token, 'A10 ' *)
(* followed by the token passed to auth_logoff; a client holds no Authorization     *)
(* value as long as neither a successful auth nor auth_logoff has run on it, and    *)
(* holds one whenever its latest session step is a successful auth.                 *)
C10_LogoffKeepsItsToken ==
    /\ last.op = "auth_logoff"
          => /\ "Authorization" \in DOMAIN self.headers
             /\ self.headers["Authorization"] = <<"A", "1", "0", " ">> \o last.arg
    /\ session = "Unauthenticated" => "Authorization" \notin DOMAIN self.headers
    /\ session = "Authenticated" => "Authorization" \in DOMAIN self.headers

C10_Witness ==
    /\ last.op = "auth_logoff"
    /\ authed
    /\ last.resps = <<Response(200, TextBody(<<>>))>>
    /\ "Authorization" \in DOMAIN self.headers

AccessorNames == {e.name : e \in Catalog}

(* What axapi_call hands its caller when the transport answers t *)
CallResult(t) == axapi_call(NewClient, "module", GET, EmptyResult, t).outcome

(* The operation made one call and its outcome is that call's outcome. *)
ForwardsOneCall(l) ==
    /\ Len(l.reqs) = 1
    /\ Len(l.resps) = 1
    /\ l.outcome = CallResult(l.resps[1])

(* C11 as stated: every accessor other than get_partition_list and get_hm_down_reasons, *)
(* get_partition_config and change_partition included, makes exactly one call and       *)
(* returns that call's result unchanged.                                                *)
C11_EveryAccessorForwardsOneCall ==
    last.op \in AccessorNames \cup {"get_partition_config", "change_partition"}
        => ForwardsOneCall(last)

(* C11 as amended: every accessor other than get_partition_list, get_hm_down_reasons,  *)
(* get_partition_config and change_partition makes exactly one call and returns that   *)
(* call's result unchanged; get_partition_config makes two calls (one when the first   *)
(* ends the process) and returns the second call's result; change_partition makes one  *)
(* call and returns None.                                                              *)
C11_AccessorsForwardOneCall ==
    /\ last.op \in AccessorNames => ForwardsOneCall(last)
    /\ last.op = "get_partition_config"
          => IF CallResult(last.resps[1]).kind = "return"
             THEN /\ Len(last.reqs) = 2
                  /\ Len(last.resps) = 2
                  /\ last.outcome = CallResult(last.resps[2])
             ELSE ForwardsOneCall(last)
    /\ last.op = "change_partition"
          => /\ Len(last.reqs) = 1
             /\ last.outcome = IF CallResult(last.resps[1]).kind = "return"
                               THEN Return(PyNone) ELSE CallResult(last.resps[1])

C11_Witness ==
    /\ last.op = "get_slb_server_stats"
    /\ last.arg = <<"1">>
    /\ Len(last.reqs) = 1
    /\ last.reqs[1].module = "slb/server/1/stats"
    /\ last.resps = <<Response(200, JsonBody(HealthLines))>>
    /\ last.outcome = Return(HealthLines)

(* The list of lines get_hm_down_reasons was answered with, when it was one *)
AnsweredLines ==
    LET items == last.resps[1].body.doc.d[1].v.l
    IN  [i \in 1..Len(items) |-> items[i].s]

GivenLines ==
    /\ last.op = "get_hm_down_reasons"
    /\ Len(last.resps) = 1
    /\ last.resps[1].k = "response"
    /\ last.resps[1].body.kind = "json"
    /\ last.resps[1].body.doc.t = "dict"
    /\ Len(last.resps[1].body.doc.d) = 1
    /\ last.resps[1].body.doc.d[1].k = "command output"
    /\ last.resps[1].body.doc.d[1].v.t = "list"
    /\ \A i \in DOMAIN last.resps[1].body.doc.d[1].v.l : last.resps[1].body.doc.d[1].v.l[i].t = "str"

HasSlash(line) == \E i \in 1..Len(line) : line[i] = "/"

(* p is where the first "/" of line stands *)
FirstSlashAt(line, p) ==
    /\ p \in 1..Len(line)
    /\ line[p] = "/"
    /\ \A j \in 1..(p - 1) : line[j] # "/"

(* code is made of the characters of line at positions p+1 and p+2, as far as they exist *)
FollowsPosition(line, p, code) ==
    /\ Len(code) = (IF Len(line) - p >= 2 THEN 2 ELSE Len(line) - p)
    /\ \A k \in 1..Len(code) : code[k] = line[p + k]

ReturnedCodes == { x.s : x \in last.outcome.v.e }

(* The string a line containing "DOWN" contributes: the up to two characters after its *)
(* first "/", or its first up to two characters when it has no "/"                      *)
Contributes(line, code) ==
    /\ Contains(line, DOWN)
    /\ \/ \E p \in 1..Len(line) : FirstSlashAt(line, p) /\ FollowsPosition(line, p, code)
       \/ ~HasSlash(line) /\ FollowsPosition(line, 0, code)

(* The strings of up to two characters that stand somewhere in the answered lines *)
Candidates ==
    UNION { { SubSeq(AnsweredLines[i], p + 1, Min(p + n, Len(AnsweredLines[i]))) :
                p \in 0..Len(AnsweredLines[i]), n \in 1..2 } : i \in 1..Len(AnsweredLines) }

OneDigitThenOther(code) == Len(code) = 2 /\ code[1] \in Digits /\ code[2] \notin Digits

(* C12 as stated: for every list of lines the result is exactly the set of the       *)
(* two-character strings that follow the first "/" of a line containing "DOWN" and    *)
(* that are one digit followed by a character that is not a digit; a line without "/" *)
(* contributes nothing and "12" is not kept.                                          *)
C12_OnlySingleDigitCodesAfterSlash ==
    GivenLines =>
        /\ last.outcome.kind = "return"
        /\ last.outcome.v.t = "listofset"
        /\ ReturnedCodes =
              { code \in Candidates :
                  /\ OneDigitThenOther(code)
                  /\ \E i \in 1..Len(AnsweredLines) :
                        /\ HasSlash(AnsweredLines[i])
                        /\ Contributes(AnsweredLines[i], code) }

(* C12 as amended: for every list of lines the result is exactly the duplicate-free set *)
(* of the strings that lines containing "DOWN" contribute and that begin with a digit.  *)
(* A line contributes the up to two characters after its first "/", and its first up to *)
(* two characters when it has no "/"; "12" is kept.                                     *)
C12_CodesBeginningWithADigit ==
    GivenLines =>
        /\ last.outcome.kind = "return"
        /\ last.outcome.v.t = "listofset"
        /\ ReturnedCodes =
              { code \in Candidates :
                  /\ Len(code) >= 1
                  /\ code[1] \in Digits
                  /\ \E i \in 1..Len(AnsweredLines) : Contributes(AnsweredLines[i], code) }

C12_Witness ==
    /\ GivenLines
    /\ AnsweredLines = << <<"1", "/", "1", "2", " ">> \o DOWN, <<"1", " ", "3", " ", " ">> \o DOWN >>
    /\ last.outcome = Return(PyListOfSet({PyStr(<<"1", "2">>), PyStr(<<"1", " ">>)}))

(* C13: answered with text that is not JSON and has the line "1/3  DOWN",            *)
(* get_hm_down_reasons goes through the text line by line: it returns a non-empty set *)
(* that contains the reason code of that line.                                        *)
C13_TextAnswerScannedByLine ==
    ( /\ last.op = "get_hm_down_reasons"
      /\ Len(last.resps) = 1
      /\ last.resps[1] = Response(200, TextBody(HealthText)) )
        => /\ last.outcome.kind = "return"
           /\ last.outcome.v.t = "listofset"
           /\ last.outcome.v.e # {}
           /\ PyStr(ReasonOf(LineDown)) \in last.outcome.v.e

(* C14: axapi_call returns a result or ends the process with status 1, whatever the *)
(* method and the transport outcome; no exception leaves it, and a method that is   *)
(* neither GET nor POST sends no request.                                            *)
C14_AxapiCallReturnsOrExits ==
    last.op = "axapi_call"
        => /\ \/ last.outcome.kind = "return"
              \/ last.outcome.kind = "exit" /\ last.outcome.code = 1
           /\ last.arg[2] \notin {GET, POST} => last.reqs = <<>>

(* The command the docstring of a clideploy accessor names, with the argument spliced in *)
DocstringCommand(entry, arg) == IF entry.takesArg THEN entry.doc \o arg[1] ELSE entry.doc

(* C15: every accessor that goes through clideploy POSTs to 'clideploy' a CommandList of *)
(* exactly the one command its docstring names; get_slb_ssl_stats sends                  *)
(* 'show slb ssl stats'.                                                                 *)
C15_ClideployAccessorsSendDocstringCommand ==
    \A entry \in Catalog :
        (entry.via = "clideploy" /\ last.op = entry.name)
            => /\ Len(last.reqs) = 1
               /\ last.reqs[1].method = POST
               /\ last.reqs[1].module = "clideploy"
               /\ last.reqs[1].data =
                     JsonBody(PyDict(<<Item("CommandList",
                                            PyList(<<PyStr(<<DocstringCommand(entry, last.arg)>>)>>))>>))

(* C16: only auth and auth_logoff change the client: after axapi_call, clideploy or any *)
(* accessor its device, credentials, base_url and headers are what they were and it has *)
(* gained no field, whatever the response and the calls before.                         *)
C16_OnlySessionOpsChangeClient ==
    [][last'.op \notin SessionOps => self' = self]_vars

C16_Witness ==
    /\ last.op = "get_partition_list"
    /\ authed
    /\ last.resps = <<Response(200, JsonBody(Partitions(<<P1, P2>>)))>>
    /\ last.outcome.kind = "return"
    /\ self.headers["Authorization"] = A10Prefix \o <<"t", "1">>

====
